---- MODULE Spec2Model ----
(***************************************************************************)
(* A model of experiments/compare_lemmas.py: the surface normalizer, the   *)
(* spreadsheet header classifier and extractor, the cross-file aggregator  *)
(* and the read-only comparison of the two SQLite stores done by main().    *)
(*                                                                         *)
(* Text is modelled as a sequence of Unicode code points (naturals), so    *)
(* that whitespace, Latin letters and the kana/CJK ranges are decided by   *)
(* the same character tests as the Python code.                            *)
(***************************************************************************)
EXTENDS Integers, Sequences, FiniteSets, TLC

VARIABLES
    \* ---- _norm_surface applied once and twice
    nsPc, nsValue, nsOnce, nsTwice,
    \* ---- _csv_surfaces on one file
    csvPc, csvRows, csvStart, csvSurfaces,
    \* ---- main(), spreadsheet part (lines 218-230)
    aggPc, files, aggI, union_unique, summaries, combined,
    \* ---- main(), store part (lines 233-389)
    pc, ankiDb, tokeiDb, interval_days, handles, exc,
    anki, tokei, warnings, out, ret,
    \* ---- the external-store counts of several runs over one store content
    ankiRuns

nsVars   == <<nsPc, nsValue, nsOnce, nsTwice>>
csvVars  == <<csvPc, csvRows, csvStart, csvSurfaces>>
aggVars  == <<aggPc, files, aggI, union_unique, summaries, combined>>
mainVars == <<pc, ankiDb, tokeiDb, interval_days, handles, exc,
              anki, tokei, warnings, out, ret>>
vars     == <<nsVars, csvVars, aggVars, mainVars, ankiRuns>>

\* Python's None and SQL's NULL; a present value v is Some(v)
None == <<>>

NULL == <<>>

Some(v) == <<v>>

-----------------------------------------------------------------------------
(* Characters and strings                                                  *)

\* str.isspace() / the regular expression class \s (the same set in CPython)
IsSpace(c) ==
    \/ c \in 9..13
    \/ c \in 28..32
    \/ c \in {133, 160, 5760}
    \/ c \in 8192..8202
    \/ c \in {8232, 8233, 8239, 8287, 12288}

\* [a-z]
IsLower(c) == c \in 97..122

\* [A-Za-z]
IsLatin(c) == c \in 65..90 \/ c \in 97..122

\* [\u3040-\u30ff\u3400-\u9fff]
IsJapanese(c) == c \in 12352..12543 \/ c \in 13312..40959

\* str.lower() on the characters of the model (ASCII letters fold, the rest
\* of the modelled characters have no lowercase mapping)
LowerChar(c) == IF c \in 65..90 THEN c + 32 ELSE c

lower(s) == [i \in 1..Len(s) |-> LowerChar(s[i])]

Front(s) == SubSeq(s, 1, Len(s) - 1)

Last(s) == s[Len(s)]

\* k in s (substring test)
Contains(s, k) ==
    \E i \in 0..(Len(s) - Len(k)) : SubSeq(s, i + 1, i + Len(k)) = k

\* re.search(r"[a-z]", s)
HasLower(s) == \E i \in 1..Len(s) : IsLower(s[i])

\* re.search(r"[A-Za-z]", s)
HasLatin(s) == \E i \in 1..Len(s) : IsLatin(s[i])

\* " ".join(cells)
RECURSIVE JoinSpace(_)
JoinSpace(cells) ==
    IF cells = <<>> THEN <<>>
    ELSE IF Len(cells) = 1 THEN cells[1]
    ELSE cells[1] \o <<32>> \o JoinSpace(Tail(cells))

\* All sequences over S of length at most n
RECURSIVE SeqsUpTo(_, _)
SeqsUpTo(S, n) ==
    IF n = 0 THEN {<<>>}
    ELSE LET shorter == SeqsUpTo(S, n - 1)
         IN  shorter \cup {Append(s, x) : s \in {t \in shorter : Len(t) = n - 1}, x \in S}

-----------------------------------------------------------------------------
(* _norm_surface                                                           *)

RECURSIVE lstrip(_)
lstrip(s) ==
    IF s # <<>> /\ IsSpace(Head(s)) THEN lstrip(Tail(s)) ELSE s

RECURSIVE rstrip(_)
rstrip(s) ==
    IF s # <<>> /\ IsSpace(Last(s)) THEN rstrip(Front(s)) ELSE s

\* a strip that removes at most one whitespace character from each end
strip_one(s) ==
    LET l == IF s # <<>> /\ IsSpace(Head(s)) THEN Tail(s) ELSE s
    IN  IF l # <<>> /\ IsSpace(Last(l)) THEN Front(l) ELSE l

\* str.strip()
strip(s) == rstrip(lstrip(s))

\* Canonical singleton decompositions (EN QUAD -> EN SPACE, EM QUAD -> EM SPACE)
NFCSingleton(c) ==
    IF c = 8192 THEN 8194 ELSE IF c = 8193 THEN 8195 ELSE c

\* Canonical compositions of a starter and a following combining mark:
\* a + U+0301 -> U+00E1, A + U+0301 -> U+00C1, U+304B + U+3099 -> U+304C
NFCPairs ==
    { <<97, 769, 225>>, <<65, 769, 193>>, <<12363, 12441, 12364>> }

NFCComposable(a, b) == \E p \in NFCPairs : p[1] = a /\ p[2] = b

NFCCompose(a, b) == (CHOOSE p \in NFCPairs : p[1] = a /\ p[2] = b)[3]

RECURSIVE NFCFold(_, _)
NFCFold(s, acc) ==
    IF s = <<>> THEN acc
    ELSE LET c == NFCSingleton(Head(s))
         IN  IF acc # <<>> /\ NFCComposable(Last(acc), c)
             THEN NFCFold(Tail(s), Append(Front(acc), NFCCompose(Last(acc), c)))
             ELSE NFCFold(Tail(s), Append(acc, c))

\* unicodedata.normalize("NFC", s)
NFC(s) == NFCFold(s, <<>>)

RECURSIVE CollapseFold(_, _, _)
CollapseFold(s, acc, inRun) ==
    IF s = <<>> THEN acc
    ELSE IF IsSpace(Head(s))
         THEN CollapseFold(Tail(s), IF inRun THEN acc ELSE Append(acc, 32), TRUE)
         ELSE CollapseFold(Tail(s), Append(acc, Head(s)), FALSE)

\* re.sub(r"\s+", " ", s)
collapse_ws(s) == CollapseFold(s, <<>>, FALSE)

norm_surface(value) == collapse_ws(NFC(strip(value)))

-----------------------------------------------------------------------------
(* _csv_surfaces: rows is the list csv.reader returns, a sequence of rows, *)
(* each row a sequence of cells. Row indices are 0-based as in the code.   *)

\* r[0] if r else ""
FirstCell(r) == IF r # <<>> THEN r[1] ELSE <<>>

has_japanese_chars(value) == \E i \in 1..Len(value) : IsJapanese(value[i])

RECURSIVE next_nonempty_first(_, _)
next_nonempty_first(rows, start) ==
    IF start >= Len(rows) THEN <<>>
    ELSE LET cell == norm_surface(FirstCell(rows[start + 1]))
         IN  IF cell # <<>> THEN cell ELSE next_nonempty_first(rows, start + 1)

\* word, words, surface, expression, lexeme, lemma, lemmas, dictform,
\* dict_form, dictionaryform
header_words ==
    { <<119, 111, 114, 100>>,
      <<119, 111, 114, 100, 115>>,
      <<115, 117, 114, 102, 97, 99, 101>>,
      <<101, 120, 112, 114, 101, 115, 115, 105, 111, 110>>,
      <<108, 101, 120, 101, 109, 101>>,
      <<108, 101, 109, 109, 97>>,
      <<108, 101, 109, 109, 97, 115>>,
      <<100, 105, 99, 116, 102, 111, 114, 109>>,
      <<100, 105, 99, 116, 95, 102, 111, 114, 109>>,
      <<100, 105, 99, 116, 105, 111, 110, 97, 114, 121, 102, 111, 114, 109>> }

\* word, surface, expression, lexeme, lemma, morph, dictform, dict_form,
\* hascard, reading, translation
header_keys ==
    { <<119, 111, 114, 100>>,
      <<115, 117, 114, 102, 97, 99, 101>>,
      <<101, 120, 112, 114, 101, 115, 115, 105, 111, 110>>,
      <<108, 101, 120, 101, 109, 101>>,
      <<108, 101, 109, 109, 97>>,
      <<109, 111, 114, 112, 104>>,
      <<100, 105, 99, 116, 102, 111, 114, 109>>,
      <<100, 105, 99, 116, 95, 102, 111, 114, 109>>,
      <<104, 97, 115, 99, 97, 114, 100>>,
      <<114, 101, 97, 100, 105, 110, 103>>,
      <<116, 114, 97, 110, 115, 108, 97, 116, 105, 111, 110>> }

\* the classifier without the rule of lines 150-153 (a lone Latin label
\* before logographic data)
looks_like_header_row_no_lookahead(rows, idx) ==
    LET r        == rows[idx + 1]
        first    == norm_surface(FirstCell(r))
        first_lc == lower(first)
        rest     == norm_surface(JoinSpace(Tail(r)))
    IN  IF first = <<>> THEN FALSE
        ELSE IF first_lc \in header_words THEN TRUE
        ELSE IF HasLower(first_lc)
                /\ \E k \in header_keys : Contains(first_lc, k) THEN TRUE
        ELSE IF Len(r) > 1
                /\ HasLatin(first)
                /\ HasLatin(rest)
                /\ ~has_japanese_chars(first)
                /\ ~has_japanese_chars(rest) THEN TRUE
        ELSE FALSE

looks_like_header_row(rows, idx) ==
    LET r        == rows[idx + 1]
        first    == norm_surface(FirstCell(r))
        first_lc == lower(first)
        rest     == norm_surface(JoinSpace(Tail(r)))
    IN  IF first = <<>> THEN FALSE
        ELSE IF first_lc \in header_words THEN TRUE
        ELSE IF HasLower(first_lc)
                /\ \E k \in header_keys : Contains(first_lc, k) THEN TRUE
        ELSE IF Len(r) > 1
                /\ HasLatin(first)
                /\ HasLatin(rest)
                /\ ~has_japanese_chars(first)
                /\ ~has_japanese_chars(rest) THEN TRUE
        ELSE IF HasLatin(first) /\ ~has_japanese_chars(first)
             THEN LET next_first == next_nonempty_first(rows, idx + 1)
                  IN  next_first # <<>> /\ has_japanese_chars(next_first)
        ELSE FALSE

\* the while loop of lines 157-159, entered with start_idx
RECURSIVE scan_header(_, _)
scan_header(rows, start_idx) ==
    IF start_idx < Len(rows) /\ looks_like_header_row(rows, start_idx)
    THEN scan_header(rows, start_idx + 1)
    ELSE start_idx

csv_start_idx(rows) == scan_header(rows, 0)

RECURSIVE SurfacesLoop(_, _, _)
SurfacesLoop(rows, i, acc) ==
    IF i >= Len(rows) THEN acc
    ELSE LET s == norm_surface(FirstCell(rows[i + 1]))
         IN  SurfacesLoop(rows, i + 1, IF s # <<>> THEN Append(acc, s) ELSE acc)

RECURSIVE SurfacesLoopReclassify(_, _, _)
SurfacesLoopReclassify(rows, i, acc) ==
    IF i >= Len(rows) THEN acc
    ELSE LET s == norm_surface(FirstCell(rows[i + 1]))
         IN  SurfacesLoopReclassify(rows, i + 1,
                 IF s # <<>> /\ ~looks_like_header_row(rows, i)
                 THEN Append(acc, s) ELSE acc)

\* an extraction that classifies every row, not only the leading ones
surfaces_from_reclassify(rows, start_idx) ==
    SurfacesLoopReclassify(rows, start_idx, <<>>)

\* the for loop of lines 161-165 over rows[start_idx:]
surfaces_from(rows, start_idx) == SurfacesLoop(rows, start_idx, <<>>)

\* returns (len(rows), surfaces)
csv_surfaces(rows) ==
    IF rows = <<>> THEN <<0, <<>>>>
    ELSE <<Len(rows), surfaces_from(rows, csv_start_idx(rows))>>

SeqToSet(s) == {s[i] : i \in DOMAIN s}

\* returns (n_lines, len(surfaces), len(set(surfaces)))
csv_summary(rows) ==
    LET res == csv_surfaces(rows)
    IN  <<res[1], Len(res[2]), Cardinality(SeqToSet(res[2]))>>


-----------------------------------------------------------------------------
(* The normalizer applied once and then to its own result                  *)

MaxStrLen == 4

\* a, combining acute, precomposed a-acute, space, tab, EN QUAD
NormAlphabet == {97, 769, 225, 32, 9, 8192}

NormInputs == SeqsUpTo(NormAlphabet, MaxStrLen)

NsIdle ==
    /\ nsPc = "idle"
    /\ nsValue = <<>>
    /\ nsOnce = <<>>
    /\ nsTwice = <<>>

NsInit ==
    /\ nsPc = "input"
    /\ nsValue \in NormInputs
    /\ nsOnce = <<>>
    /\ nsTwice = <<>>

NormalizeOnce ==
    /\ nsPc = "input"
    /\ nsOnce' = norm_surface(nsValue)
    /\ nsPc' = "once"
    /\ UNCHANGED <<nsValue, nsTwice>>
    /\ UNCHANGED <<csvVars, aggVars, mainVars, ankiRuns>>

NormalizeTwice ==
    /\ nsPc = "once"
    /\ nsTwice' = norm_surface(nsOnce)
    /\ nsPc' = "twice"
    /\ UNCHANGED <<nsValue, nsOnce>>
    /\ UNCHANGED <<csvVars, aggVars, mainVars, ankiRuns>>

-----------------------------------------------------------------------------
(* One spreadsheet run through _csv_surfaces                               *)

MaxRows == 3

\* first cells: " ", "Word", "abc", U+5B66, U+5B66 "word", "a" U+5B66, "12";
\* second cells: "en", U+5B66
CsvRowPalette ==
    { <<>>,
      << <<32>> >>,
      << <<87, 111, 114, 100>> >>,
      << <<97, 98, 99>> >>,
      << <<23398>> >>,
      << <<23398, 119, 111, 114, 100>> >>,
      << <<97, 23398>> >>,
      << <<49, 50>> >>,
      << <<97, 98, 99>>, <<101, 110>> >>,
      << <<97, 98, 99>>, <<23398>> >>,
      << <<49, 50>>, <<101, 110>> >>,
      << <<23398>>, <<101, 110>> >> }

CsvIdle ==
    /\ csvPc = "idle"
    /\ csvRows = <<>>
    /\ csvStart = 0
    /\ csvSurfaces = <<>>

CsvInit ==
    /\ csvPc = "read"
    /\ csvRows \in SeqsUpTo(CsvRowPalette, MaxRows)
    /\ csvStart = 0
    /\ csvSurfaces = <<>>

\* line 87: an empty file returns at once
CsvEmpty ==
    /\ csvPc = "read"
    /\ csvRows = <<>>
    /\ csvPc' = "done"
    /\ UNCHANGED <<csvRows, csvStart, csvSurfaces>>
    /\ UNCHANGED <<nsVars, aggVars, mainVars, ankiRuns>>

\* lines 157-159
CsvScanHeader ==
    /\ csvPc = "read"
    /\ csvRows # <<>>
    /\ csvStart' = csv_start_idx(csvRows)
    /\ csvPc' = "emit"
    /\ UNCHANGED <<csvRows, csvSurfaces>>
    /\ UNCHANGED <<nsVars, aggVars, mainVars, ankiRuns>>

\* lines 161-167
CsvEmit ==
    /\ csvPc = "emit"
    /\ csvSurfaces' = surfaces_from(csvRows, csvStart)
    /\ csvPc' = "done"
    /\ UNCHANGED <<csvRows, csvStart>>
    /\ UNCHANGED <<nsVars, aggVars, mainVars, ankiRuns>>

-----------------------------------------------------------------------------
(* main(), the spreadsheet part. A file is [readable, rows]: opening or    *)
(* parsing an unreadable file raises inside _csv_surfaces.                 *)

MaxFiles == 2

AggMaxRows == 2

\* rows "word", U+5B66 U+6821, U+98DF
AggRowPalette ==
    { << <<119, 111, 114, 100>> >>,
      << <<23398, 26657>> >>,
      << <<39135>> >> }

AggFiles ==
    {[readable |-> FALSE, rows |-> <<>>]}
        \cup {[readable |-> TRUE, rows |-> r] : r \in SeqsUpTo(AggRowPalette, AggMaxRows)}

\* lines 192-197 with a loop that stops at the first file that fails
RECURSIVE csv_union_loop_break(_, _, _)
csv_union_loop_break(paths, i, u) ==
    IF i >= Len(paths) THEN u
    ELSE LET f == paths[i + 1]
         IN  IF ~f.readable THEN u
             ELSE csv_union_loop_break(paths, i + 1, u \cup SeqToSet(csv_surfaces(f.rows)[2]))

\* lines 192-197 with union replaced, not extended, by each file's surfaces
RECURSIVE csv_union_loop_overwrite(_, _, _)
csv_union_loop_overwrite(paths, i, u) ==
    IF i >= Len(paths) THEN u
    ELSE LET f == paths[i + 1]
         IN  IF ~f.readable THEN csv_union_loop_overwrite(paths, i + 1, u)
             ELSE csv_union_loop_overwrite(paths, i + 1, SeqToSet(csv_surfaces(f.rows)[2]))

\* lines 192-197: try / except Exception: continue / union.update(surfaces)
RECURSIVE csv_union_loop(_, _, _)
csv_union_loop(paths, i, u) ==
    IF i >= Len(paths) THEN u
    ELSE LET f == paths[i + 1]
         IN  IF ~f.readable THEN csv_union_loop(paths, i + 1, u)
             ELSE csv_union_loop(paths, i + 1, u \cup SeqToSet(csv_surfaces(f.rows)[2]))

csv_union_unique_surfaces_break(paths) ==
    Cardinality(csv_union_loop_break(paths, 0, {}))

csv_union_unique_surfaces_overwrite(paths) ==
    Cardinality(csv_union_loop_overwrite(paths, 0, {}))

csv_union_unique_surfaces(paths) == Cardinality(csv_union_loop(paths, 0, {}))

AggIdle ==
    /\ aggPc = "idle"
    /\ files = <<>>
    /\ aggI = 0
    /\ union_unique = None
    /\ summaries = <<>>
    /\ combined = None

AggInit ==
    /\ aggPc = "start"
    /\ files \in SeqsUpTo(AggFiles, MaxFiles)
    /\ aggI = 0
    /\ union_unique = None
    /\ summaries = <<>>
    /\ combined = None

\* lines 212-217: no spreadsheet found
AggMissing ==
    /\ aggPc = "start"
    /\ files = <<>>
    /\ aggPc' = "done"
    /\ UNCHANGED <<files, aggI, union_unique, summaries, combined>>
    /\ UNCHANGED <<nsVars, csvVars, mainVars, ankiRuns>>

\* lines 219-222
AggUnion ==
    /\ aggPc = "start"
    /\ files # <<>>
    /\ union_unique' = Some(csv_union_unique_surfaces(files))
    /\ aggI' = 0
    /\ aggPc' = "summary"
    /\ UNCHANGED <<files, summaries, combined>>
    /\ UNCHANGED <<nsVars, csvVars, mainVars, ankiRuns>>

\* lines 223-228, one iteration: a file that fails prints its path alone
AggSummary ==
    /\ aggPc = "summary"
    /\ aggI < Len(files)
    /\ LET p == files[aggI + 1]
       IN  summaries' = Append(summaries,
                               IF p.readable THEN Some(csv_summary(p.rows)) ELSE None)
    /\ aggI' = aggI + 1
    /\ UNCHANGED <<aggPc, files, union_unique, combined>>
    /\ UNCHANGED <<nsVars, csvVars, mainVars, ankiRuns>>

\* lines 229-230
AggCombined ==
    /\ aggPc = "summary"
    /\ aggI = Len(files)
    /\ combined' = IF union_unique # None /\ Len(files) > 1 THEN union_unique ELSE None
    /\ aggPc' = "done"
    /\ UNCHANGED <<files, aggI, union_unique, summaries>>
    /\ UNCHANGED <<nsVars, csvVars, mainVars, ankiRuns>>

-----------------------------------------------------------------------------
(* The external store: ankiDb is None when the file is absent, else        *)
(* [hasMorphs, hasInterval, Morphs], Morphs a sequence of rows             *)
(* [lemma, inflection, interval] whose values are NULL or Some(v).         *)

\* WHERE highest_inflection_learning_interval <= ? (comparison reversed)
interval_passes_reversed(v, t) == v # NULL /\ v[1] <= t

\* WHERE highest_inflection_learning_interval >= ?  (a NULL never passes)
interval_passes(v, t) == v # NULL /\ v[1] >= t

\* SELECT COUNT(DISTINCT column): NULLs are not counted
count_distinct(table, column) ==
    Cardinality({table[i][column] : i \in DOMAIN table} \ {NULL})

\* lines 259-261
anki_counts_all(Morphs) ==
    [ lemma_count   |-> Some(count_distinct(Morphs, "lemma")),
      surface_count |-> Some(count_distinct(Morphs, "inflection")),
      row_count     |-> Some(Len(Morphs)) ]

\* lines 263-283
anki_counts_filtered(Morphs, t) ==
    LET known == SelectSeq(Morphs, LAMBDA r : interval_passes(r.interval, t))
    IN  [ lemma_count   |-> Some(count_distinct(known, "lemma")),
          surface_count |-> Some(count_distinct(known, "inflection")),
          row_count     |-> Some(Len(known)) ]

AnkiNone == [lemma_count |-> None, surface_count |-> None, row_count |-> None]

\* lines 251-283, the body of the try block: the counts and the warnings
anki_try(db, t) ==
    IF ~db.hasMorphs
    THEN [counts |-> AnkiNone, warn |-> {"missing Morphs table"}]
    ELSE IF ~db.hasInterval
    THEN [counts |-> anki_counts_all(db.Morphs),
          warn   |-> {"missing highest_inflection_learning_interval"}]
    ELSE [counts |-> anki_counts_filtered(db.Morphs, t), warn |-> {}]

-----------------------------------------------------------------------------
(* The internal store: tokeiDb is None when the file is absent, else       *)
(* [hasLexemes, hasLemmas, hasLL, lexemes, lemmas, lexeme_lemmas]:         *)
(* lexemes maps id -> [normalized_surface], lemmas maps id -> [lemma] (the  *)
(* value NULL or Some(text)), lexeme_lemmas is a sequence of rows          *)
(* [lexeme_id, lemma_id].                                                  *)

\* FROM lexemes l JOIN lexeme_lemmas ll ON ll.lexeme_id = l.id
\*                JOIN lemmas le ON le.id = ll.lemma_id
Join(db) ==
    { [link |-> i,
       surface |-> db.lexemes[db.lexeme_lemmas[i].lexeme_id].normalized_surface,
       lemma |-> db.lemmas[db.lexeme_lemmas[i].lemma_id].lemma] :
        i \in { k \in DOMAIN db.lexeme_lemmas :
                  /\ db.lexeme_lemmas[k].lexeme_id \in DOMAIN db.lexemes
                  /\ db.lexeme_lemmas[k].lemma_id \in DOMAIN db.lemmas } }

\* WHERE l.normalized_surface != le.lemma  (NULL on either side is not true)
Changed(j) == j.surface # NULL /\ j.lemma # NULL /\ j.surface # j.lemma

\* lines 310-319
changed_surface_count(db) == Cardinality({j \in Join(db) : Changed(j)})

\* lines 324-329: SELECT DISTINCT l.normalized_surface, le.lemma
changed_pairs(db) ==
    {<<j.surface[1], j.lemma[1]>> : j \in {x \in Join(db) : Changed(x)}}

\* GROUP BY le.lemma HAVING COUNT(*) > 1: join rows, not distinct surfaces
collision_lemma_count_rows(db) ==
    Cardinality({ g \in {j.lemma : j \in Join(db)} :
                    Cardinality({j \in Join(db) : j.lemma = g}) > 1 })

\* lines 336-349: GROUP BY le.lemma HAVING COUNT(DISTINCT l.normalized_surface) > 1
collision_lemma_count(db) ==
    Cardinality({ g \in {j.lemma : j \in Join(db)} :
                    Cardinality({j.surface : j \in {x \in Join(db) : x.lemma = g}}
                                    \ {NULL}) > 1 })

\* byte order of two texts (sequences of code points)
RECURSIVE TextLeq(_, _)
TextLeq(a, b) ==
    IF a = <<>> THEN TRUE
    ELSE IF b = <<>> THEN FALSE
    ELSE IF Head(a) # Head(b) THEN Head(a) < Head(b)
    ELSE TextLeq(Tail(a), Tail(b))

SampleLimit == 20

\* ORDER BY l.normalized_surface LIMIT 20: every order of the distinct pairs
\* that is sorted by surface (SQL leaves ties open), cut to the limit
changed_samples(db) ==
    LET pairs == changed_pairs(db)
        n     == Cardinality(pairs)
        m     == IF n < SampleLimit THEN n ELSE SampleLimit
    IN  { SubSeq(q, 1, m) :
            q \in { f \in [1..n -> pairs] :
                      /\ \A a, b \in 1..n : a # b => f[a] # f[b]
                      /\ \A a \in 1..(n - 1) : TextLeq(f[a][1], f[a + 1][1]) } }

TokeiNone ==
    [ lemma_count |-> None, surface_count |-> None,
      changed_surface_count |-> None, collision_lemma_count |-> None,
      changed_samples |-> <<>> ]

\* the name of the table whose absence makes a query of lines 297-349 fail
\* with sqlite3.OperationalError, or None: only the join of lines 310-349
\* reads a table it has not probed (lexemes)
tokei_missing_table(db) ==
    IF db.hasLemmas /\ db.hasLL /\ ~db.hasLexemes THEN Some("lexemes") ELSE None

\* lines 297-349 when no query fails; samples is the list the sample query gave
tokei_try(db, samples) ==
    [ surface_count |->
          IF db.hasLexemes
          THEN Some(count_distinct(db.lexemes, "normalized_surface"))
          ELSE None,
      lemma_count |->
          IF db.hasLemmas
          THEN Some(count_distinct(db.lemmas, "lemma"))
          ELSE None,
      changed_surface_count |->
          IF db.hasLemmas /\ db.hasLL THEN Some(changed_surface_count(db)) ELSE None,
      changed_samples |->
          IF db.hasLemmas /\ db.hasLL THEN samples ELSE <<>>,
      collision_lemma_count |->
          IF db.hasLemmas /\ db.hasLL THEN Some(collision_lemma_count(db)) ELSE None ]

tokei_warnings(db) ==
    (IF ~db.hasLexemes THEN {"missing lexemes table"} ELSE {})
        \cup (IF ~db.hasLemmas THEN {"missing lemmas table"} ELSE {})
        \cup (IF db.hasLemmas /\ count_distinct(db.lemmas, "lemma") = 0
              THEN {"lemmas table is empty"} ELSE {})

-----------------------------------------------------------------------------
(* main(), the store part (lines 233-389)                                  *)

\* a finally clause that runs on the normal path only
finally_close_on_success(open, h, e) == IF e = None THEN open \ {h} ELSE open

\* finally: con.close()
finally_close(open, h, e) == open \ {h}

\* lines 355-387: what is printed
report(a, t, days) ==
    [ anki_skipped   |-> a.lemma_count = None,
      anki_filter    |-> IF a.lemma_count = None THEN None ELSE Some(days),
      anki_rows      |-> IF a.lemma_count = None THEN None ELSE a.row_count,
      anki_lemmas    |-> a.lemma_count,
      anki_surfaces  |-> IF a.lemma_count = None THEN None ELSE a.surface_count,
      tokei_skipped  |-> t.lemma_count = None,
      tokei_lemmas   |-> t.lemma_count,
      tokei_surfaces |-> IF t.lemma_count = None THEN None ELSE t.surface_count,
      tokei_changed  |-> IF t.lemma_count = None THEN None ELSE t.changed_surface_count,
      tokei_examples |-> IF t.lemma_count = None \/ t.changed_surface_count = None
                         THEN <<>> ELSE t.changed_samples,
      tokei_collisions |-> IF t.lemma_count = None THEN None ELSE t.collision_lemma_count,
      difference     |-> IF a.lemma_count # None /\ t.lemma_count # None
                         THEN Some(t.lemma_count[1] - a.lemma_count[1]) ELSE None ]

NoReport == [printed |-> FALSE]

\* three Morphs rows of lemma "X" with intervals 30, 10, 25
MorphsSample ==
    << [lemma |-> Some("X"), inflection |-> Some("x1"), interval |-> Some(30)],
       [lemma |-> Some("X"), inflection |-> Some("x2"), interval |-> Some(10)],
       [lemma |-> Some("X"), inflection |-> Some("x3"), interval |-> Some(25)] >>

MainAnkiDbs ==
    { None, [hasMorphs |-> FALSE, hasInterval |-> FALSE, Morphs |-> <<>>] }
        \cup { [hasMorphs |-> TRUE, hasInterval |-> c, Morphs |-> m] :
                 c \in BOOLEAN, m \in {<<>>, MorphsSample} }

\* U+8D70 U+308B and U+8D70 U+3063 U+305F
TextHashiru == <<36208, 12427>>

TextHashitta == <<36208, 12387, 12383>>

\* the tables of a store that holds two surfaces joined to one lemma, and of
\* an empty one; a table that does not exist has no rows
MainTokeiDbs ==
    { None }
        \cup { [ hasLexemes |-> x, hasLemmas |-> y, hasLL |-> z,
                 lexemes |-> IF x /\ full
                             THEN (1 :> [normalized_surface |-> Some(TextHashiru)])
                                      @@ (2 :> [normalized_surface |-> Some(TextHashitta)])
                             ELSE <<>>,
                 lemmas |-> IF y /\ full THEN (1 :> [lemma |-> Some(TextHashiru)]) ELSE <<>>,
                 lexeme_lemmas |-> IF z /\ full
                                   THEN << [lexeme_id |-> 1, lemma_id |-> 1],
                                           [lexeme_id |-> 2, lemma_id |-> 1] >>
                                   ELSE <<>> ] :
                 x \in BOOLEAN, y \in BOOLEAN, z \in BOOLEAN, full \in BOOLEAN }

\* known_interval_days: the default and another positive value
MainIntervals == {21, 28}

MainIdle ==
    /\ pc = "idle"
    /\ ankiDb = None
    /\ tokeiDb = None
    /\ interval_days = 21
    /\ handles = {}
    /\ exc = None
    /\ anki = AnkiNone
    /\ tokei = TokeiNone
    /\ warnings = {}
    /\ out = NoReport
    /\ ret = None

MainInit ==
    /\ pc = "start"
    /\ ankiDb \in MainAnkiDbs
    /\ tokeiDb \in MainTokeiDbs
    /\ interval_days \in MainIntervals
    /\ handles = {}
    /\ exc = None
    /\ anki = AnkiNone
    /\ tokei = TokeiNone
    /\ warnings = {}
    /\ out = NoReport
    /\ ret = None

\* lines 286-287
AnkiMissing ==
    /\ pc = "start"
    /\ ankiDb = None
    /\ warnings' = warnings \cup {"AnkiMorphs DB not found"}
    /\ pc' = "tokei_start"
    /\ UNCHANGED <<ankiDb, tokeiDb, interval_days, handles, exc, anki, tokei, out, ret>>
    /\ UNCHANGED <<nsVars, csvVars, aggVars, ankiRuns>>

\* line 249
AnkiOpen ==
    /\ pc = "start"
    /\ ankiDb # None
    /\ handles' = handles \cup {"ankimorphs.db"}
    /\ pc' = "anki_try"
    /\ UNCHANGED <<ankiDb, tokeiDb, interval_days, exc, anki, tokei, warnings, out, ret>>
    /\ UNCHANGED <<nsVars, csvVars, aggVars, ankiRuns>>

\* line 249: sqlite3.connect raises, no handle exists, the error leaves main
AnkiOpenFails ==
    /\ pc = "start"
    /\ ankiDb # None
    /\ exc' = Some("unable to open database file")
    /\ pc' = "raised"
    /\ UNCHANGED <<ankiDb, tokeiDb, interval_days, handles, anki, tokei, warnings, out, ret>>
    /\ UNCHANGED <<nsVars, csvVars, aggVars, ankiRuns>>

\* lines 251-283
AnkiQueries ==
    /\ pc = "anki_try"
    /\ LET res == anki_try(ankiDb, interval_days)
       IN  /\ anki' = res.counts
           /\ warnings' = warnings \cup res.warn
    /\ pc' = "anki_finally"
    /\ UNCHANGED <<ankiDb, tokeiDb, interval_days, handles, exc, tokei, out, ret>>
    /\ UNCHANGED <<nsVars, csvVars, aggVars, ankiRuns>>

\* lines 251-283: a query raises (the file is locked, truncated, not a database)
AnkiQueryFails ==
    /\ pc = "anki_try"
    /\ exc' = Some("disk I/O error")
    /\ pc' = "anki_finally"
    /\ UNCHANGED <<ankiDb, tokeiDb, interval_days, handles, anki, tokei, warnings, out, ret>>
    /\ UNCHANGED <<nsVars, csvVars, aggVars, ankiRuns>>

\* lines 284-285
AnkiClose ==
    /\ pc = "anki_finally"
    /\ handles' = finally_close(handles, "ankimorphs.db", exc)
    /\ pc' = IF exc = None THEN "tokei_start" ELSE "raised"
    /\ UNCHANGED <<ankiDb, tokeiDb, interval_days, exc, anki, tokei, warnings, out, ret>>
    /\ UNCHANGED <<nsVars, csvVars, aggVars, ankiRuns>>

\* lines 352-353
TokeiMissing ==
    /\ pc = "tokei_start"
    /\ tokeiDb = None
    /\ warnings' = warnings \cup {"Tokei words DB not found"}
    /\ pc' = "report"
    /\ UNCHANGED <<ankiDb, tokeiDb, interval_days, handles, exc, anki, tokei, out, ret>>
    /\ UNCHANGED <<nsVars, csvVars, aggVars, ankiRuns>>

\* line 295
TokeiOpen ==
    /\ pc = "tokei_start"
    /\ tokeiDb # None
    /\ handles' = handles \cup {"tokei_words.sqlite"}
    /\ pc' = "tokei_try"
    /\ UNCHANGED <<ankiDb, tokeiDb, interval_days, exc, anki, tokei, warnings, out, ret>>
    /\ UNCHANGED <<nsVars, csvVars, aggVars, ankiRuns>>

\* line 295: sqlite3.connect raises
TokeiOpenFails ==
    /\ pc = "tokei_start"
    /\ tokeiDb # None
    /\ exc' = Some("unable to open database file")
    /\ pc' = "raised"
    /\ UNCHANGED <<ankiDb, tokeiDb, interval_days, handles, anki, tokei, warnings, out, ret>>
    /\ UNCHANGED <<nsVars, csvVars, aggVars, ankiRuns>>

\* lines 297-349: every query succeeds
TokeiQueries ==
    /\ pc = "tokei_try"
    /\ tokei_missing_table(tokeiDb) = None
    /\ \E samples \in changed_samples(tokeiDb) :
           tokei' = tokei_try(tokeiDb, samples)
    /\ warnings' = warnings \cup tokei_warnings(tokeiDb)
    /\ pc' = "tokei_finally"
    /\ UNCHANGED <<ankiDb, tokeiDb, interval_days, handles, exc, anki, out, ret>>
    /\ UNCHANGED <<nsVars, csvVars, aggVars, ankiRuns>>

\* lines 310-318: the join names a table that does not exist
TokeiNoSuchTable ==
    /\ pc = "tokei_try"
    /\ tokei_missing_table(tokeiDb) # None
    /\ exc' = Some("no such table")
    /\ warnings' = warnings \cup tokei_warnings(tokeiDb)
    /\ pc' = "tokei_finally"
    /\ UNCHANGED <<ankiDb, tokeiDb, interval_days, handles, anki, tokei, out, ret>>
    /\ UNCHANGED <<nsVars, csvVars, aggVars, ankiRuns>>

\* lines 297-349: a query raises for a reason other than the schema
TokeiQueryFails ==
    /\ pc = "tokei_try"
    /\ exc' = Some("disk I/O error")
    /\ pc' = "tokei_finally"
    /\ UNCHANGED <<ankiDb, tokeiDb, interval_days, handles, anki, tokei, warnings, out, ret>>
    /\ UNCHANGED <<nsVars, csvVars, aggVars, ankiRuns>>

\* lines 350-351
TokeiClose ==
    /\ pc = "tokei_finally"
    /\ handles' = finally_close(handles, "tokei_words.sqlite", exc)
    /\ pc' = IF exc = None THEN "report" ELSE "raised"
    /\ UNCHANGED <<ankiDb, tokeiDb, interval_days, exc, anki, tokei, warnings, out, ret>>
    /\ UNCHANGED <<nsVars, csvVars, aggVars, ankiRuns>>

\* lines 355-389
Report ==
    /\ pc = "report"
    /\ out' = report(anki, tokei, interval_days)
    /\ ret' = Some(0)
    /\ pc' = "done"
    /\ UNCHANGED <<ankiDb, tokeiDb, interval_days, handles, exc, anki, tokei, warnings>>
    /\ UNCHANGED <<nsVars, csvVars, aggVars, ankiRuns>>

Next ==
    \/ AnkiMissing
    \/ AnkiOpen
    \/ AnkiOpenFails
    \/ AnkiQueries
    \/ AnkiQueryFails
    \/ AnkiClose
    \/ TokeiMissing
    \/ TokeiOpen
    \/ TokeiOpenFails
    \/ TokeiQueries
    \/ TokeiNoSuchTable
    \/ TokeiQueryFails
    \/ TokeiClose
    \/ Report

Init == MainInit /\ NsIdle /\ CsvIdle /\ AggIdle /\ ankiRuns = <<>>

Spec == Init /\ [][Next]_vars

-----------------------------------------------------------------------------
(* Claims about the store part of main() (specification Spec)              *)

\* C1: whatever tables of the internal store and whatever table or interval
\* column of the external store are absent, main lets no error escape: it
\* leaves through return 0, and an error leaves main only when opening a
\* store or a query fails for a reason other than the schema.
C1_SchemaFaultsOnlyWarn ==
    /\ pc = "raised" =>
           exc \in {Some("disk I/O error"), Some("unable to open database file")}
    /\ pc = "done" => ret = Some(0)

\* C2: at most one store handle is open at any time, a handle is open only
\* between its open and the finally clause after its queries, and no handle
\* is open once main has returned or has let an error escape.
C2_HandlesScoped ==
    /\ Cardinality(handles) <= 1
    /\ "ankimorphs.db" \in handles => pc \in {"anki_try", "anki_finally"}
    /\ "tokei_words.sqlite" \in handles => pc \in {"tokei_try", "tokei_finally"}
    /\ pc \in {"done", "raised"} => handles = {}

\* a query of the internal store failed after the external store was read,
\* and the error has left main
C2_Witness ==
    /\ pc = "raised"
    /\ exc = Some("disk I/O error")
    /\ anki.lemma_count # None
    /\ tokeiDb # None
    /\ handles = {}

\* C6: when main returns, the report holds the distinct-surface count of the
\* internal store whenever its lexemes table exists, and the three counts of
\* the external store whenever its Morphs table exists, whatever else is
\* missing.
C6_EveryDerivableStatisticReported ==
    pc = "done" =>
        /\ (tokeiDb # None /\ tokeiDb.hasLexemes) =>
               out.tokei_surfaces
                   = Some(count_distinct(tokeiDb.lexemes, "normalized_surface"))
        /\ (ankiDb # None /\ ankiDb.hasMorphs) =>
               /\ out.anki_rows = anki_try(ankiDb, interval_days).counts.row_count
               /\ out.anki_lemmas = anki_try(ankiDb, interval_days).counts.lemma_count
               /\ out.anki_surfaces = anki_try(ankiDb, interval_days).counts.surface_count

-----------------------------------------------------------------------------
(* The external-store counts of several runs over one store content        *)
(* (specification SpecAnki)                                                *)

MaxMorphs == 2

MaxInterval == 2

\* thresholds are positive (_load_ankimorphs_known_interval)
Thresholds == 1..(MaxInterval + 1)

MorphPalette ==
    { [lemma |-> Some(l), inflection |-> Some(f), interval |-> v] :
        l \in {"X", "Y"}, f \in {"x1", "x2"},
        v \in {NULL} \cup {Some(d) : d \in 0..MaxInterval} }

AnkiInit ==
    /\ pc = "idle"
    /\ ankiDb \in { [hasMorphs |-> TRUE, hasInterval |-> c, Morphs |-> m] :
                      c \in BOOLEAN, m \in SeqsUpTo(MorphPalette, MaxMorphs) }
    /\ tokeiDb = None
    /\ interval_days = 21
    /\ handles = {}
    /\ exc = None
    /\ anki = AnkiNone
    /\ tokei = TokeiNone
    /\ warnings = {}
    /\ out = NoReport
    /\ ret = None
    /\ ankiRuns = [t \in Thresholds |-> None]
    /\ NsIdle /\ CsvIdle /\ AggIdle

\* a run of lines 248-285 with known_interval_days = t, its counts recorded
AnkiRun(t) ==
    /\ ankiRuns[t] = None
    /\ interval_days' = t
    /\ anki' = anki_try(ankiDb, t).counts
    /\ ankiRuns' = [ankiRuns EXCEPT ![t] = Some(anki_try(ankiDb, t).counts)]
    /\ UNCHANGED <<pc, ankiDb, tokeiDb, handles, exc, tokei, warnings, out, ret>>
    /\ UNCHANGED <<nsVars, csvVars, aggVars>>

AnkiNext == \E t \in Thresholds : AnkiRun(t)

SpecAnki == AnkiInit /\ [][AnkiNext]_vars

\* C8: over one external store content, with or without the interval
\* column, a run with the larger threshold reports no larger row count,
\* distinct lemma count or distinct inflection count.
C8_ThresholdMonotone ==
    \A t1, t2 \in Thresholds :
        (t1 <= t2 /\ ankiRuns[t1] # None /\ ankiRuns[t2] # None) =>
            /\ ankiRuns[t2][1].row_count[1] <= ankiRuns[t1][1].row_count[1]
            /\ ankiRuns[t2][1].lemma_count[1] <= ankiRuns[t1][1].lemma_count[1]
            /\ ankiRuns[t2][1].surface_count[1] <= ankiRuns[t1][1].surface_count[1]

\* two runs over a store with the interval column, the larger threshold
\* giving strictly fewer rows and lemmas
C8_Witness ==
    /\ ankiDb.hasInterval
    /\ \E t1, t2 \in Thresholds :
           /\ t1 < t2
           /\ ankiRuns[t1] # None
           /\ ankiRuns[t2] # None
           /\ ankiRuns[t2][1].row_count[1] < ankiRuns[t1][1].row_count[1]
           /\ ankiRuns[t2][1].lemma_count[1] < ankiRuns[t1][1].lemma_count[1]

-----------------------------------------------------------------------------
(* The internal-store statistics over generated store contents             *)
(* (specification SpecTokei)                                               *)

MaxLinks == 2

TokeiIds == {1, 2}

TokeiValues == {NULL, Some(TextHashiru), Some(TextHashitta)}

\* every table with ids among TokeiIds and the one column col
TablesOf(col) ==
    UNION { [S -> {[c \in {col} |-> v] : v \in TokeiValues}] : S \in SUBSET TokeiIds }

TokeiInit ==
    /\ pc = "tokei_start"
    /\ ankiDb = None
    /\ tokeiDb \in { [ hasLexemes |-> TRUE, hasLemmas |-> TRUE, hasLL |-> TRUE,
                       lexemes |-> l, lemmas |-> m, lexeme_lemmas |-> ll ] :
                       l \in TablesOf("normalized_surface"),
                       m \in TablesOf("lemma"),
                       ll \in SeqsUpTo([lexeme_id : TokeiIds, lemma_id : TokeiIds],
                                       MaxLinks) }
    /\ interval_days = 21
    /\ handles = {}
    /\ exc = None
    /\ anki = AnkiNone
    /\ tokei = TokeiNone
    /\ warnings = {"AnkiMorphs DB not found"}
    /\ out = NoReport
    /\ ret = None
    /\ ankiRuns = <<>>
    /\ NsIdle /\ CsvIdle /\ AggIdle

TokeiNext ==
    \/ TokeiOpen
    \/ TokeiQueries
    \/ TokeiClose
    \/ Report

SpecTokei == TokeiInit /\ [][TokeiNext]_vars

\* every row of the join has the lexeme's surface equal to the lemma's text
AllSurfacesEqualLemma(db) == \A j \in Join(db) : j.surface = j.lemma

\* C9: when every joined lexeme's surface equals the text of each lemma it
\* is joined to, main ends with changed count 0, no changed sample and
\* collision count 0.
C9_NoChangeNoCollision ==
    (pc = "done" /\ AllSurfacesEqualLemma(tokeiDb)) =>
        /\ tokei.changed_surface_count = Some(0)
        /\ tokei.changed_samples = <<>>
        /\ tokei.collision_lemma_count = Some(0)
        /\ out.tokei_examples = <<>>

\* two lexemes of the same surface joined to one lemma of that text
C9_Witness ==
    /\ pc = "done"
    /\ AllSurfacesEqualLemma(tokeiDb)
    /\ \E a, b \in Join(tokeiDb) :
           /\ a.link # b.link
           /\ a.lemma = b.lemma
           /\ a.lemma # NULL
           /\ tokeiDb.lexeme_lemmas[a.link].lexeme_id
                  # tokeiDb.lexeme_lemmas[b.link].lexeme_id

-----------------------------------------------------------------------------
(* Claims about _norm_surface (specification SpecNorm)                     *)

MainParked ==
    /\ MainIdle
    /\ ankiRuns = <<>>

NormInit == NsInit /\ CsvIdle /\ AggIdle /\ MainParked

NormNext ==
    \/ NormalizeOnce
    \/ NormalizeTwice

SpecNorm == NormInit /\ [][NormNext]_vars

\* C10: normalizing a normalized surface changes nothing:
\* _norm_surface(_norm_surface(s)) = _norm_surface(s) for every string s.
C10_Idempotent == nsPc = "twice" => nsTwice = nsOnce

\* an input with whitespace at both ends and inside, normalized twice
C10_Witness ==
    /\ nsPc = "twice"
    /\ Len(nsValue) >= 4
    /\ IsSpace(nsValue[1])
    /\ IsSpace(nsValue[2])
    /\ IsSpace(nsValue[Len(nsValue)])
    /\ nsOnce # <<>>
    /\ nsOnce # nsValue

-----------------------------------------------------------------------------
(* Claims about _csv_surfaces (specification SpecCsv)                      *)

CsvSpecInit == CsvInit /\ NsIdle /\ AggIdle /\ MainParked

CsvNext ==
    \/ CsvEmpty
    \/ CsvScanHeader
    \/ CsvEmit

SpecCsv == CsvSpecInit /\ [][CsvNext]_vars

\* the normalized first cell of the row at 0-based index i
NormFirst(rows, i) == norm_surface(FirstCell(rows[i + 1]))

\* the index of the first row the header heuristic rejects (len(rows) if none)
FirstNonHeader(rows) ==
    CHOOSE k \in 0..Len(rows) :
        /\ k = Len(rows) \/ ~looks_like_header_row(rows, k)
        /\ \A i \in 0..(k - 1) : looks_like_header_row(rows, i)

\* the j-th smallest element of a set of indices
NthIndex(E, j) == CHOOSE i \in E : Cardinality({e \in E : e < i}) = j - 1

\* C3: the header rows are exactly rows 0..k-1, k the first row the header
\* heuristic rejects (a row with an empty normalized first cell is rejected);
\* the surfaces are the non-empty normalized first cells of the rows from k
\* on, in row order, header-like or not, and of no row before k.
C3_HeaderPrefixThenEveryRow ==
    (csvPc = "done" /\ csvRows # <<>>) =>
        LET k == FirstNonHeader(csvRows)
            E == {i \in k..(Len(csvRows) - 1) : NormFirst(csvRows, i) # <<>>}
        IN  /\ csvStart = k
            /\ \A i \in 0..(Len(csvRows) - 1) :
                   NormFirst(csvRows, i) = <<>> => ~looks_like_header_row(csvRows, i)
            /\ Len(csvSurfaces) = Cardinality(E)
            /\ \A j \in 1..Len(csvSurfaces) :
                   csvSurfaces[j] = NormFirst(csvRows, NthIndex(E, j))

\* a header row, a data row, and then a row that matches the heuristic and
\* is emitted all the same
C3_Witness ==
    /\ csvPc = "done"
    /\ csvStart >= 1
    /\ \E i \in (csvStart + 1)..(Len(csvRows) - 1) :
           /\ looks_like_header_row(csvRows, i)
           /\ \E j \in 1..Len(csvSurfaces) : csvSurfaces[j] = NormFirst(csvRows, i)

\* a label row: a Latin letter in the first cell, no kana or CJK in any cell
IsLabelRow(r) ==
    /\ r # <<>>
    /\ HasLatin(norm_surface(r[1]))
    /\ \A c \in 1..Len(r) : ~has_japanese_chars(r[c])

\* a logographic data row: kana or CJK in the first cell
IsDataRow(r) == has_japanese_chars(norm_surface(FirstCell(r)))

\* a data row whose first cell holds none of the header-ish substrings
IsPlainDataRow(r) ==
    /\ IsDataRow(r)
    /\ ~\E key \in header_keys : Contains(lower(norm_surface(FirstCell(r))), key)

\* k label rows, then one or more rows that satisfy Data, and nothing else
LabelsThenData(rows, k, Data(_)) ==
    /\ Len(rows) > k
    /\ \A i \in 1..k : IsLabelRow(rows[i])
    /\ \A i \in (k + 1)..Len(rows) : Data(rows[i])

\* the classifier consumed exactly k rows and every later row was emitted
ConsumesExactly(k) ==
    /\ csvStart = k
    /\ csvSurfaces = [j \in 1..(Len(csvRows) - k) |-> NormFirst(csvRows, k + j - 1)]

\* C4 as stated: with k = 0 or 1 all-Latin label rows followed by rows whose
\* first cell contains a kana or CJK character, exactly k rows are consumed
\* as header and every data row is emitted.
C4_Original ==
    \A k \in {0, 1} :
        (csvPc = "done" /\ LabelsThenData(csvRows, k, IsDataRow)) => ConsumesExactly(k)

\* C4 amended: the same, for data rows whose first cell contains a kana or
\* CJK character and none of the header-ish substrings of lines 125-135.
C4_PlainDataRows ==
    \A k \in {0, 1} :
        (csvPc = "done" /\ LabelsThenData(csvRows, k, IsPlainDataRow)) => ConsumesExactly(k)

\* one label row skipped, two data rows emitted
C4_Witness ==
    /\ csvPc = "done"
    /\ LabelsThenData(csvRows, 1, IsPlainDataRow)
    /\ Len(csvRows) >= 3
    /\ csvStart = 1
    /\ Len(csvSurfaces) = Len(csvRows) - 1

-----------------------------------------------------------------------------
(* Claims about the spreadsheet part of main() (specification SpecAgg)     *)

AggSpecInit == AggInit /\ NsIdle /\ CsvIdle /\ MainParked

AggNext ==
    \/ AggMissing
    \/ AggUnion
    \/ AggSummary
    \/ AggCombined

SpecAgg == AggSpecInit /\ [][AggNext]_vars

\* the set of surfaces of a readable file
SurfaceSet(f) == SeqToSet(csv_surfaces(f.rows)[2])

AllReadable == \A i \in 1..Len(files) : files[i].readable

\* the largest per-file distinct count among the printed summaries
MaxDistinct ==
    CHOOSE m \in {summaries[i][1][3] : i \in 1..Len(summaries)} :
        \A i \in 1..Len(summaries) : summaries[i][1][3] <= m

\* C5: for a non-empty list of readable files the union count is at least
\* the largest per-file distinct count, and equal to it when all files have
\* the same surface set.
C5_UnionAtLeastMax ==
    (aggPc = "done" /\ files # <<>> /\ AllReadable) =>
        /\ union_unique[1] >= MaxDistinct
        /\ (\A i, j \in 1..Len(files) : SurfaceSet(files[i]) = SurfaceSet(files[j]))
               => union_unique[1] = MaxDistinct

\* two readable files with different surfaces: the union exceeds both counts
C5_Witness ==
    /\ aggPc = "done"
    /\ Len(files) >= 2
    /\ AllReadable
    /\ union_unique[1] > MaxDistinct
    /\ MaxDistinct >= 1

\* C7: a file that cannot be read or parsed stops nothing: the union count is
\* that of the surfaces of all the readable files, wherever the failing file
\* stands in the list, and every readable file gets its own summary.
C7_FailureIsolated ==
    (aggPc = "done" /\ files # <<>>) =>
        /\ union_unique
               = Some(Cardinality(UNION {SurfaceSet(files[i]) :
                                           i \in {n \in 1..Len(files) : files[n].readable}}))
        /\ Len(summaries) = Len(files)
        /\ \A i \in 1..Len(files) :
               summaries[i] = IF files[i].readable
                              THEN Some(csv_summary(files[i].rows)) ELSE None

\* an unreadable file first, a readable file with surfaces after it
C7_Witness ==
    /\ aggPc = "done"
    /\ Len(files) >= 2
    /\ ~files[1].readable
    /\ files[2].readable
    /\ SurfaceSet(files[2]) # {}
    /\ union_unique = Some(Cardinality(SurfaceSet(files[2])))

====
